---- MODULE Spec2Model ----
(***************************************************************************)
(* Model of the spookymanor room-graph library                             *)
(* (src/novo/.lib/spookymanor/spookymanor.py): rooms whose four direction  *)
(* properties keep each other in sync, the process-wide session state,     *)
(* and the operations move, look_around, add_key_for, add_friend.          *)
(***************************************************************************)
EXTENDS Integers, Sequences, FiniteSets, TLC

(* ------------------------------------------------------------------ *)
(* Bounds                                                               *)
(* ------------------------------------------------------------------ *)
\* most key entries (add_key_for calls) in a behaviour
MaxKeys == 1
\* most friend entries (add_friend calls) in a behaviour
MaxFriends == 3
\* most occupied direction pairs while clearing and deleting are explored
MaxClearLinks == 1
\* most direction attributes deleted in a behaviour
MaxDeleted == 1
\* most key entries in a behaviour while repeated add_key_for calls are explored
MaxKeyEntries == 2
\* most friend entries in a behaviour while the frame of the operations is explored
MaxFrameFriends == 1

(* ------------------------------------------------------------------ *)
(* Values                                                               *)
(* ------------------------------------------------------------------ *)
\* Python's None
None == "None"
\* an instance attribute removed by `del`: reading it raises AttributeError
Deleted == "Deleted"

\* the Room objects the caller has constructed (object identities)
Rooms == {"r1", "r2", "r3"}

\* Room.name: a display string, two rooms may carry the same one
name(r) == IF r = "r1" THEN "Foyer" ELSE "Library"

\* the rooms that get locked in the games explored: the two of the same name
Lockable == {"r2", "r3"}

\* the assignments a.d = b that build the maps of the games explored: one
\* for each setter, among them a link that takes a neighbour from another
\* room and a room linked to itself
Doors == {<<"r1", "north", "r2">>, <<"r2", "east", "r3">>,
          <<"r3", "west", "r1">>, <<"r3", "south", "r3">>}

\* friend names handed to add_friend
FriendNames == {"Ann", "Bob"}

Dirs == {"north", "south", "east", "west"}

\* the attribute each setter updates on the other room
Opp(d) ==
    CASE d = "north" -> "south"
      [] d = "south" -> "north"
      [] d = "east"  -> "west"
      [] d = "west"  -> "east"

\* the direction names move documents and show_move_options offers
DirNames == {"North", "South", "East", "West"}

\* direction strings handed to move: the documented names, lower-case,
\* upper-case and mixed spellings, and a string that names no direction
DirStrings == {"North", "South", "East", "West", "north", "south", "east", "west",
               "NORTH", "sOuTh", "up"}

\* str.lower() on the direction strings
lower(s) ==
    CASE s = "North" -> "north"
      [] s = "South" -> "south"
      [] s = "East"  -> "east"
      [] s = "West"  -> "west"
      [] s = "NORTH" -> "north"
      [] s = "sOuTh" -> "south"
      [] OTHER       -> s

(* ------------------------------------------------------------------ *)
(* State                                                                *)
(* ------------------------------------------------------------------ *)
VARIABLES
    links,      \* links[r][d]: r._north / _south / _east / _west
    locked,     \* locked[r]: r.locked
    keys,       \* keys[r]: r.keys, a list of rooms
    friends,    \* friends[r]: r.friends, a list of names
    state,      \* the module-level _State object
    out,        \* the last call: how it ended and, for the calls on the direction
                \* properties, the receiver and the arguments
    before,     \* the links when the last recorded call began
    calls,      \* counts so far: add_friend calls (in all and per name), friends
                \* found by look_around, look_around calls that found a friend
    menu        \* the show_menu call in progress: whether it waits for a line,
                \* its options, the room whose show_move_options made it, and
                \* the line it rejected last

vars == <<links, locked, keys, friends, state, out, before, calls, menu>>

\* no show_menu call is in progress
NoMenu == [pc |-> "idle", options |-> <<>>, room |-> None, line |-> <<>>]

Init ==
    /\ links = [r \in Rooms |-> [d \in Dirs |-> None]]
    /\ locked = [r \in Rooms |-> FALSE]
    /\ keys = [r \in Rooms |-> <<>>]
    /\ friends = [r \in Rooms |-> <<>>]
    /\ state = [current_room |-> None, keys |-> <<>>,
                remaining_friends |-> <<>>, found_friends |-> <<>>]
    /\ out = [op |-> "init", room |-> None, dir |-> None, arg |-> None, res |-> "ok"]
    /\ before = links
    /\ calls = [add_friend |-> 0, registered |-> [n \in FriendNames |-> 0],
                found |-> 0, finding |-> 0]
    /\ menu = NoMenu

(* ------------------------------------------------------------------ *)
(* Direction properties                                                 *)
(* ------------------------------------------------------------------ *)
\* `x._d = v` for a Room x
SetAttr(L, x, d, v) == [L EXCEPT ![x][d] = v]

\* _set without the second unlink
_set_bug(L, self, d, room) ==
    IF L[self][d] = Deleted THEN [links |-> L, res |-> "AttributeError"]
    ELSE
      LET L1 == IF L[self][d] # None THEN SetAttr(L, L[self][d], Opp(d), None) ELSE L
      IN  IF room = None \/ L1[room][Opp(d)] = Deleted
          THEN [links |-> L1, res |-> "AttributeError"]
          ELSE
            LET L3 == SetAttr(L1, self, d, room)
                L4 == SetAttr(L3, room, Opp(d), self)
            IN  [links |-> L4, res |-> "ok"]

\* _set without the first unlink
_set_keep(L, self, d, room) ==
    IF L[self][d] = Deleted THEN [links |-> L, res |-> "AttributeError"]
    ELSE
      IF room = None \/ L[room][Opp(d)] = Deleted
      THEN [links |-> L, res |-> "AttributeError"]
      ELSE
        LET L2 == IF L[room][Opp(d)] # None
                  THEN SetAttr(L, L[room][Opp(d)], d, None) ELSE L
            L3 == SetAttr(L2, self, d, room)
            L4 == SetAttr(L3, room, Opp(d), self)
        IN  [links |-> L4, res |-> "ok"]

\* The setter of direction d on room `self`, called with `room` (a Room or
\* None).  Result: the links afterwards and how the call ended.
\*   if self._d != None: self._d._opp = None
\*   if room._opp != None: room._opp._d = None
\*   self._d = room ; room._opp = self
\* Reading a deleted attribute, or an attribute of None, raises
\* AttributeError and keeps what was assigned before it.
_set(L, self, d, room) ==
    IF L[self][d] = Deleted THEN [links |-> L, res |-> "AttributeError"]
    ELSE
      LET L1 == IF L[self][d] # None THEN SetAttr(L, L[self][d], Opp(d), None) ELSE L
      IN  IF room = None \/ L1[room][Opp(d)] = Deleted
          THEN [links |-> L1, res |-> "AttributeError"]
          ELSE
            LET L2 == IF L1[room][Opp(d)] # None
                      THEN SetAttr(L1, L1[room][Opp(d)], d, None) ELSE L1
                L3 == SetAttr(L2, self, d, room)
                L4 == SetAttr(L3, room, Opp(d), self)
            IN  [links |-> L4, res |-> "ok"]

\* The deleter of direction d on room `self`.
\*   if self._d != None: self._d._opp = None
\*   del self._d
_del(L, self, d) ==
    IF L[self][d] = Deleted THEN [links |-> L, res |-> "AttributeError"]
    ELSE
      LET L1 == IF L[self][d] # None THEN SetAttr(L, L[self][d], Opp(d), None) ELSE L
      IN  [links |-> SetAttr(L1, self, d, Deleted), res |-> "ok"]

\* The getter of direction d on room `self`: the value, or AttributeError
_get(L, self, d) ==
    IF L[self][d] = Deleted THEN "AttributeError" ELSE L[self][d]

\* number of direction attributes that hold a room
Occupied(L) == Cardinality({p \in Rooms \X Dirs : L[p[1]][p[2]] \in Rooms})
\* number of direction attributes that were deleted
NumDeleted(L) == Cardinality({p \in Rooms \X Dirs : L[p[1]][p[2]] = Deleted})

\* a.d = b for a Room b
Link(a, d, b) ==
    LET r == _set(links, a, d, b) IN
    /\ links' = r.links
    /\ before' = links
    /\ out' = [op |-> "link", room |-> a, dir |-> d, arg |-> b, res |-> r.res]
    /\ UNCHANGED <<locked, keys, friends, state, calls, menu>>

\* a.d = None
Clear(a, d) ==
    LET r == _set(links, a, d, None) IN
    /\ links' = r.links
    /\ before' = links
    /\ out' = [op |-> "clear", room |-> a, dir |-> d, arg |-> None, res |-> r.res]
    /\ UNCHANGED <<locked, keys, friends, state, calls, menu>>

\* del a.d
Del(a, d) ==
    LET r == _del(links, a, d) IN
    /\ NumDeleted(links) < MaxDeleted
    /\ links' = r.links
    /\ before' = links
    /\ out' = [op |-> "del", room |-> a, dir |-> d, arg |-> None, res |-> r.res]
    /\ UNCHANGED <<locked, keys, friends, state, calls, menu>>

\* reading a.d
Get(a, d) ==
    /\ out' = [op |-> "get", room |-> a, dir |-> d, arg |-> None, res |-> _get(links, a, d)]
    /\ before' = links
    /\ UNCHANGED <<links, locked, keys, friends, state, calls, menu>>

NextLink == \E a \in Rooms, d \in Dirs, b \in Rooms : Link(a, d, b)

SpecLink == Init /\ [][NextLink]_vars

\* the direction properties: assigning a room or None, deleting, reading
NextClear ==
    \/ \E a \in Rooms, d \in Dirs, b \in Rooms :
          Occupied(_set(links, a, d, b).links) <= 2 * MaxClearLinks /\ Link(a, d, b)
    \/ \E a \in Rooms, d \in Dirs : Clear(a, d)
    \/ \E a \in Rooms, d \in Dirs : Del(a, d)
    \/ \E a \in Rooms, d \in Dirs : Get(a, d)

SpecClear == Init /\ [][NextClear]_vars

(* ------------------------------------------------------------------ *)
(* Locks, keys, friends                                                 *)
(* ------------------------------------------------------------------ *)
\* the elements of a list
Range(q) == {q[i] : i \in 1..Len(q)}

\* list.remove taking every x out of the list
RECURSIVE Remove_all(_, _)
Remove_all(q, x) ==
    IF q = <<>> THEN <<>>
    ELSE IF Head(q) = x THEN Remove_all(Tail(q), x)
    ELSE <<Head(q)>> \o Remove_all(Tail(q), x)

\* list.remove(x): the list without its first x (x is in the list)
RECURSIVE Remove(_, _)
Remove(q, x) ==
    IF q = <<>> THEN <<>>
    ELSE IF Head(q) = x THEN Tail(q)
    ELSE <<Head(q)>> \o Remove(Tail(q), x)

\* is_locked that takes a room for locked as long as a key for it lies in a room
is_locked_keyed(r) == locked[r] = TRUE \/ \E h \in Rooms : r \in Range(keys[h])

\* Room.is_locked
is_locked(r) == locked[r] = TRUE

\* Room.set_locked
SetLocked(r, b) ==
    /\ locked' = [locked EXCEPT ![r] = b]
    /\ out' = [op |-> "set_locked", room |-> None, dir |-> None, arg |-> None, res |-> "ok"]
    /\ before' = links
    /\ UNCHANGED <<links, keys, friends, state, calls, menu>>

\* key entries placed so far: those still in rooms and those collected
RECURSIVE KeysIn(_)
KeysIn(rs) ==
    IF rs = {} THEN 0
    ELSE LET r == CHOOSE x \in rs : TRUE IN Len(keys[r]) + KeysIn(rs \ {r})

NumKeys == Len(state.keys) + KeysIn(Rooms)

\* add_key_for that places no second key for a target the holder has a key for
AddKeyFor_once(holder, target) ==
    /\ keys' = [keys EXCEPT ![holder] = IF target \in Range(@) THEN @ ELSE Append(@, target)]
    /\ locked' = [locked EXCEPT ![target] = TRUE]
    /\ out' = [op |-> "add_key_for", room |-> None, dir |-> None, arg |-> None, res |-> "ok"]
    /\ before' = links
    /\ UNCHANGED <<links, friends, state, calls, menu>>

\* holder.add_key_for(target)
AddKeyFor(holder, target) ==
    /\ keys' = [keys EXCEPT ![holder] = Append(@, target)]
    /\ locked' = [locked EXCEPT ![target] = TRUE]
    /\ out' = [op |-> "add_key_for", room |-> None, dir |-> None, arg |-> None, res |-> "ok"]
    /\ before' = links
    /\ UNCHANGED <<links, friends, state, calls, menu>>

\* add_friend that leaves the session's remaining_friends alone
AddFriend_local(r, n) ==
    /\ calls.add_friend < MaxFriends
    /\ friends' = [friends EXCEPT ![r] = Append(@, n)]
    /\ calls' = [calls EXCEPT !.add_friend = @ + 1, !.registered[n] = @ + 1]
    /\ out' = [op |-> "add_friend", room |-> None, dir |-> None, arg |-> None, res |-> "ok"]
    /\ before' = links
    /\ UNCHANGED <<links, locked, keys, state, menu>>

\* r.add_friend(n)
AddFriend(r, n) ==
    /\ calls.add_friend < MaxFriends
    /\ friends' = [friends EXCEPT ![r] = Append(@, n)]
    /\ state' = [state EXCEPT !.remaining_friends = Append(@, n)]
    /\ calls' = [calls EXCEPT !.add_friend = @ + 1, !.registered[n] = @ + 1]
    /\ out' = [op |-> "add_friend", room |-> None, dir |-> None, arg |-> None, res |-> "ok"]
    /\ before' = links
    /\ UNCHANGED <<links, locked, keys, menu>>

\* set_current_room
SetCurrentRoom(r) ==
    /\ state' = [state EXCEPT !.current_room = r]
    /\ out' = [op |-> "set_current_room", room |-> None, dir |-> None, arg |-> None, res |-> "ok"]
    /\ before' = links
    /\ UNCHANGED <<links, locked, keys, friends, calls, menu>>

\* get_current_room
get_current_room == state.current_room

\* remaining_friends()
remaining_friends == Len(state.remaining_friends)

\* the friends loop that leaves the found names in remaining_friends
RECURSIVE FindFriends_keep(_, _, _)
FindFriends_keep(fs, found, remaining) ==
    IF fs = <<>> THEN [found |-> found, remaining |-> remaining, res |-> "ok"]
    ELSE IF Head(fs) \notin Range(remaining)
         THEN [found |-> Append(found, Head(fs)), remaining |-> remaining, res |-> "ValueError"]
         ELSE FindFriends_keep(Tail(fs), Append(found, Head(fs)), remaining)

\* the friends loop that stops after the first friend of the room
FindFriends_first(fs, found, remaining) ==
    IF fs = <<>> THEN [found |-> found, remaining |-> remaining, res |-> "ok"]
    ELSE IF Head(fs) \notin Range(remaining)
         THEN [found |-> Append(found, Head(fs)), remaining |-> remaining, res |-> "ValueError"]
         ELSE [found |-> Append(found, Head(fs)), remaining |-> Remove(remaining, Head(fs)),
               res |-> "ok"]

\* The friends loop of look_around over the room's list fs:
\*   state.found_friends.append(friend); state.remaining_friends.remove(friend)
\* list.remove raises ValueError when the name is not in the list.
RECURSIVE FindFriends(_, _, _)
FindFriends(fs, found, remaining) ==
    IF fs = <<>> THEN [found |-> found, remaining |-> remaining, res |-> "ok"]
    ELSE IF Head(fs) \notin Range(remaining)
         THEN [found |-> Append(found, Head(fs)), remaining |-> remaining, res |-> "ValueError"]
         ELSE FindFriends(Tail(fs), Append(found, Head(fs)), Remove(remaining, Head(fs)))

\* look_around's key loop with the pickup left out: the room's keys are dropped
collect_none(held, found) == held

\* The key loop of look_around: state.keys.append(key) for each key of the room
collect(held, found) == held \o found

\* look_around that leaves the keys and friends it found in the room
LookAround_leave(r) ==
    LET ff == FindFriends(friends[r], state.found_friends, state.remaining_friends) IN
    /\ before' = links
    /\ UNCHANGED <<links, locked, keys, friends, menu>>
    /\ state' = [state EXCEPT !.keys = collect(@, keys[r]),
                              !.found_friends = ff.found,
                              !.remaining_friends = ff.remaining]
    /\ calls' = [calls EXCEPT
                   !.found = @ + Len(ff.found) - Len(state.found_friends),
                   !.finding = @ + (IF Len(friends[r]) > 0 THEN 1 ELSE 0)]
    /\ out' = [op |-> "look_around", room |-> None, dir |-> None, arg |-> None,
               res |-> ff.res]

\* r.look_around()
LookAround(r) ==
    LET ff == FindFriends(friends[r], state.found_friends, state.remaining_friends) IN
    /\ before' = links
    /\ UNCHANGED <<links, locked, menu>>
    /\ IF \E d \in Dirs : links[r][d] = Deleted
       THEN /\ out' = [op |-> "look_around", room |-> None, dir |-> None, arg |-> None,
                       res |-> "AttributeError"]
            /\ UNCHANGED <<keys, friends, state, calls>>
       ELSE /\ keys' = [keys EXCEPT ![r] = <<>>]
            /\ state' = [state EXCEPT !.keys = collect(@, keys[r]),
                                      !.found_friends = ff.found,
                                      !.remaining_friends = ff.remaining]
            /\ friends' = IF ff.res = "ok" THEN [friends EXCEPT ![r] = <<>>] ELSE friends
            /\ calls' = [calls EXCEPT
                           !.found = @ + Len(ff.found) - Len(state.found_friends),
                           !.finding = @ + (IF Len(friends[r]) > 0 THEN 1 ELSE 0)]
            /\ out' = [op |-> "look_around", room |-> None, dir |-> None, arg |-> None,
                       res |-> ff.res]

\* the key search comparing names instead of rooms
found_key_by_name(room) == \E i \in 1..Len(state.keys) : name(state.keys[i]) = name(room)

\* the key search of move: `key == room` over state.keys
found_key(room) == \E i \in 1..Len(state.keys) : state.keys[i] = room

\* the match of move on the string as it was passed, not lower-cased
Resolve_exact(a, s) == IF s \in Dirs THEN links[a][s] ELSE None

\* The room move resolves for the direction string s: the attribute the
\* match statement selects, None when no case matches
Resolve(a, s) == IF lower(s) \in Dirs THEN links[a][lower(s)] ELSE None

\* How a.move(s) ends
MoveResult(a, s) ==
    LET room == Resolve(a, s) IN
    IF room = Deleted THEN "AttributeError"
    ELSE IF room = None THEN "NoSuchRoom"
    ELSE IF is_locked(room) /\ ~found_key(room) THEN "Locked"
    ELSE "Moved"

\* move that enters the room before it tries the lock
Move_eager(a, s) ==
    /\ out' = [op |-> "move", room |-> None, dir |-> None, arg |-> None, res |-> MoveResult(a, s)]
    /\ state' = IF MoveResult(a, s) \in {"Moved", "Locked"}
                THEN [state EXCEPT !.current_room = Resolve(a, s)]
                ELSE state
    /\ before' = links
    /\ UNCHANGED <<links, locked, keys, friends, calls, menu>>

\* move that uses the key up when it unlocks the door
Move_consume(a, s) ==
    /\ out' = [op |-> "move", room |-> None, dir |-> None, arg |-> None, res |-> MoveResult(a, s)]
    /\ state' = IF MoveResult(a, s) = "Moved"
                THEN [state EXCEPT !.current_room = Resolve(a, s),
                                   !.keys = IF is_locked(Resolve(a, s))
                                            THEN Remove(@, Resolve(a, s)) ELSE @]
                ELSE state
    /\ before' = links
    /\ UNCHANGED <<links, locked, keys, friends, calls, menu>>

\* move that leaves the door it opened with a key unlocked
Move_unlock(a, s) ==
    /\ out' = [op |-> "move", room |-> None, dir |-> None, arg |-> None, res |-> MoveResult(a, s)]
    /\ state' = IF MoveResult(a, s) = "Moved"
                THEN [state EXCEPT !.current_room = Resolve(a, s)]
                ELSE state
    /\ locked' = IF MoveResult(a, s) = "Moved"
                 THEN [locked EXCEPT ![Resolve(a, s)] = FALSE]
                 ELSE locked
    /\ before' = links
    /\ UNCHANGED <<links, keys, friends, calls, menu>>

\* a.move(s)
Move(a, s) ==
    /\ out' = [op |-> "move", room |-> None, dir |-> None, arg |-> None, res |-> MoveResult(a, s)]
    /\ state' = IF MoveResult(a, s) = "Moved"
                THEN [state EXCEPT !.current_room = Resolve(a, s)]
                ELSE state
    /\ before' = links
    /\ UNCHANGED <<links, locked, keys, friends, calls, menu>>

\* a.d = b while the map is built for the game operations: the same
\* assignment as Link, of which only the outcome is recorded
Build(a, d, b) ==
    LET r == _set(links, a, d, b) IN
    /\ links' = r.links
    /\ before' = r.links
    /\ out' = [op |-> "build", room |-> None, dir |-> None, arg |-> None, res |-> r.res]
    /\ UNCHANGED <<locked, keys, friends, state, calls, menu>>

\* locks, keys and moves on a small graph
NextGame ==
    \/ \E door \in Doors : Build(door[1], door[2], door[3])
    \/ \E r \in Lockable, b \in BOOLEAN : SetLocked(r, b)
    \/ \E h \in Rooms, t \in Lockable : NumKeys < MaxKeys /\ AddKeyFor(h, t)
    \/ \E r \in Rooms : LookAround(r)
    \/ \E r \in Rooms : SetCurrentRoom(r)
    \/ \E a \in Rooms, s \in DirNames : Move(a, s)

SpecGame == Init /\ [][NextGame]_vars

\* friends and keys placed in rooms and collected
NextFriends ==
    \/ \E r \in Rooms, n \in FriendNames : AddFriend(r, n)
    \/ \E h \in Rooms, t \in Rooms : NumKeys < MaxKeys /\ AddKeyFor(h, t)
    \/ \E r \in Rooms : LookAround(r)

SpecFriends == Init /\ [][NextFriends]_vars

\* keys placed, also several for one target in one room, and collected
NextKeys ==
    \/ \E h \in Rooms, t \in Rooms : NumKeys < MaxKeyEntries /\ AddKeyFor(h, t)
    \/ \E r \in Rooms : LookAround(r)

SpecKeys == Init /\ [][NextKeys]_vars

\* moves under every spelling of the direction
NextCase ==
    \/ \E door \in Doors : Build(door[1], door[2], door[3])
    \/ \E r \in Lockable, b \in BOOLEAN : SetLocked(r, b)
    \/ \E a \in Rooms, s \in DirStrings : Move(a, s)

SpecCase == Init /\ [][NextCase]_vars

\* moves on a map on which directions are assigned rooms and None
NextDeadEnd ==
    \/ \E door \in Doors : Build(door[1], door[2], door[3])
    \/ \E a \in Rooms, d \in Dirs : Clear(a, d)
    \/ \E r \in Rooms : SetCurrentRoom(r)
    \/ \E a \in Rooms, s \in DirNames : Move(a, s)

SpecDeadEnd == Init /\ [][NextDeadEnd]_vars

\* every game operation, with keys and friends in the rooms, on a small map
NextFrame ==
    \/ \E door \in Doors : Build(door[1], door[2], door[3])
    \/ \E r \in Lockable, b \in BOOLEAN : SetLocked(r, b)
    \/ NumKeys < MaxKeys /\ AddKeyFor("r1", "r2")
    \/ calls.add_friend < MaxFrameFriends /\ AddFriend("r3", "Ann")
    \/ \E r \in Rooms : LookAround(r)
    \/ \E r \in Rooms : SetCurrentRoom(r)
    \/ \E a \in Rooms, s \in DirNames : Move(a, s)

SpecFrame == Init /\ [][NextFrame]_vars

(* ------------------------------------------------------------------ *)
(* Menus                                                                *)
(* ------------------------------------------------------------------ *)
\* The characters of the texts: the four directions show_move_options
\* offers, the options of the show_options calls, and the other direction
\* strings handed to move
Chars(s) ==
    CASE s = "North" -> <<"N", "o", "r", "t", "h">>
      [] s = "South" -> <<"S", "o", "u", "t", "h">>
      [] s = "East"  -> <<"E", "a", "s", "t">>
      [] s = "West"  -> <<"W", "e", "s", "t">>
      [] s = "Go"    -> <<"G", "o">>
      [] s = "7"     -> <<"7">>
      [] s = "north" -> <<"n", "o", "r", "t", "h">>
      [] s = "south" -> <<"s", "o", "u", "t", "h">>
      [] s = "east"  -> <<"e", "a", "s", "t">>
      [] s = "west"  -> <<"w", "e", "s", "t">>
      [] s = "NORTH" -> <<"N", "O", "R", "T", "H">>
      [] s = "sOuTh" -> <<"s", "O", "u", "T", "h">>
      [] s = "up"    -> <<"u", "p">>

\* the option lists handed to show_options
OptionLists == {<<"Go", "7">>, <<"West", "East">>}

\* the lines the player types, as input() returns them (without the newline)
Lines == {<<"1">>, <<"2">>, <<" ", "2">>, <<"0">>, <<"7">>,
          <<"n", "o", "r", "t", "h">>, <<"S", "o", "u", "t", "h">>,
          <<"s", "o", "u", "t", "h", " ">>,
          <<"e", "a", "s", "t">>, <<" ", "E", "a", "s", "t">>,
          <<"w", "E", "s", "T">>, <<"g", "O">>, <<"u", "p">>, <<>>}

\* str.lower() on one character
LowerChar(c) ==
    CASE c = "N" -> "n" [] c = "O" -> "o" [] c = "R" -> "r" [] c = "T" -> "t"
      [] c = "H" -> "h" [] c = "S" -> "s" [] c = "U" -> "u" [] c = "E" -> "e"
      [] c = "A" -> "a" [] c = "W" -> "w" [] c = "G" -> "g" [] c = "P" -> "p"
      [] OTHER -> c

\* a comparison that keeps the case of the letters
str_same(cs) == cs

\* str.lower() on a text
str_lower(cs) == [i \in 1..Len(cs) |-> LowerChar(cs[i])]

\* the value of a decimal digit, -1 for any other character
DigitVal(c) ==
    CASE c = "0" -> 0 [] c = "1" -> 1 [] c = "2" -> 2 [] c = "3" -> 3 [] c = "4" -> 4
      [] c = "5" -> 5 [] c = "6" -> 6 [] c = "7" -> 7 [] c = "8" -> 8 [] c = "9" -> 9
      [] OTHER -> -1

RECURSIVE LStrip(_)
LStrip(cs) == IF cs # <<>> /\ Head(cs) = " " THEN LStrip(Tail(cs)) ELSE cs

RECURSIVE RStrip(_)
RStrip(cs) ==
    IF cs # <<>> /\ cs[Len(cs)] = " " THEN RStrip(SubSeq(cs, 1, Len(cs) - 1)) ELSE cs

\* the text without leading and trailing blanks
Strip(cs) == RStrip(LStrip(cs))

\* the number a sequence of digits denotes
RECURSIVE Value(_)
Value(ds) ==
    IF ds = <<>> THEN 0
    ELSE 10 * Value(SubSeq(ds, 1, Len(ds) - 1)) + DigitVal(ds[Len(ds)])

\* int(text): blanks around the numeral are skipped, a sign may come
\* first, the rest are digits; anything else raises ValueError (ok = FALSE)
int(cs) ==
    LET t == Strip(cs)
        signed == t # <<>> /\ Head(t) \in {"+", "-"}
        ds == IF signed THEN Tail(t) ELSE t
    IN  IF ds # <<>> /\ \A i \in 1..Len(ds) : DigitVal(ds[i]) >= 0
        THEN [ok |-> TRUE, num |-> IF signed /\ Head(t) = "-" THEN 0 - Value(ds) ELSE Value(ds)]
        ELSE [ok |-> FALSE, num |-> 0]

\* the loop pass that tries the option texts before the number
show_menu_text_first(options, line) ==
    LET command == str_lower(line)
        n == int(command)
        hits == {i \in 1..Len(options) : str_lower(Chars(options[i])) = command}
    IN  IF hits # {}
        THEN options[CHOOSE i \in hits : \A j \in hits : i <= j]
        ELSE IF n.ok /\ n.num > 0 /\ n.num <= Len(options) THEN options[n.num] ELSE None

\* One pass of show_menu's loop over the line read: the option returned,
\* or None when the line is rejected and the loop goes round again.
\*   command = input().lower()
\*   num = int(command): in 1..len(options) returns options[num - 1],
\*       any other number is rejected
\*   not a number: the first option whose lower-cased text is command
show_menu(options, line) ==
    LET command == str_lower(line)
        n == int(command)
        hits == {i \in 1..Len(options) : str_lower(Chars(options[i])) = command}
    IN  IF n.ok
        THEN IF n.num > 0 /\ n.num <= Len(options) THEN options[n.num] ELSE None
        ELSE IF hits # {}
             THEN options[CHOOSE i \in hits : \A j \in hits : i <= j]
             ELSE None

\* the option list that offers all four directions
MoveOptions_all(r) == <<"North", "South", "East", "West">>

\* The options show_move_options builds for room r
MoveOptions(r) ==
    SelectSeq(<<"North", "South", "East", "West">>, LAMBDA n : links[r][lower(n)] # None)

\* show_options(*opts) up to its first read
ShowOptions(opts) ==
    /\ menu.pc = "idle"
    /\ menu' = [pc |-> "reading", options |-> opts, room |-> None, line |-> <<>>]
    /\ out' = [op |-> "show_options", room |-> None, dir |-> None, arg |-> None, res |-> "prompt"]
    /\ before' = links
    /\ UNCHANGED <<links, locked, keys, friends, state, calls>>

\* r.show_move_options() up to the first read of show_menu
ShowMoveOptions(r) ==
    /\ menu.pc = "idle"
    /\ before' = links
    /\ UNCHANGED <<links, locked, keys, friends, state, calls>>
    /\ IF \E d \in Dirs : links[r][d] = Deleted
       THEN /\ out' = [op |-> "show_move_options", room |-> None, dir |-> None, arg |-> None,
                       res |-> "AttributeError"]
            /\ UNCHANGED menu
       ELSE /\ menu' = [pc |-> "reading", options |-> MoveOptions(r), room |-> r,
                        line |-> <<>>]
            /\ out' = [op |-> "show_move_options", room |-> None, dir |-> None, arg |-> None,
                       res |-> "prompt"]

\* show_menu that gives up at the first rejected line
ReadLine_once(line) ==
    LET choice == show_menu(menu.options, line) IN
    /\ menu.pc = "reading"
    /\ before' = links
    /\ UNCHANGED <<links, locked, keys, friends, calls>>
    /\ menu' = NoMenu
    /\ IF choice = None
       THEN /\ out' = [op |-> "show_menu", room |-> None, dir |-> None, arg |-> None,
                       res |-> "invalid"]
            /\ UNCHANGED state
       ELSE IF menu.room = None
            THEN /\ out' = [op |-> "show_menu", room |-> None, dir |-> None,
                            arg |-> choice, res |-> "returned"]
                 /\ UNCHANGED state
            ELSE /\ out' = [op |-> "show_move_options", room |-> None, dir |-> None,
                            arg |-> choice, res |-> MoveResult(menu.room, choice)]
                 /\ state' = IF MoveResult(menu.room, choice) = "Moved"
                             THEN [state EXCEPT !.current_room = Resolve(menu.room, choice)]
                             ELSE state

\* show_menu reads a line.  A rejected line leaves it waiting for the
\* next one.  An accepted line ends show_menu with the option returned
\* (recorded as the call's argument); show_move_options then calls move
\* with it.
ReadLine(line) ==
    LET choice == show_menu(menu.options, line) IN
    /\ menu.pc = "reading"
    /\ before' = links
    /\ UNCHANGED <<links, locked, keys, friends, calls>>
    /\ IF choice = None
       THEN /\ out' = [op |-> "show_menu", room |-> None, dir |-> None, arg |-> None,
                       res |-> "invalid"]
            /\ menu' = [menu EXCEPT !.line = line]
            /\ UNCHANGED state
       ELSE /\ menu' = NoMenu
            /\ IF menu.room = None
               THEN /\ out' = [op |-> "show_menu", room |-> None, dir |-> None,
                               arg |-> choice, res |-> "returned"]
                    /\ UNCHANGED state
               ELSE /\ out' = [op |-> "show_move_options", room |-> None, dir |-> None,
                               arg |-> choice, res |-> MoveResult(menu.room, choice)]
                    /\ state' = IF MoveResult(menu.room, choice) = "Moved"
                                THEN [state EXCEPT !.current_room = Resolve(menu.room, choice)]
                                ELSE state

\* menus over a small game; while show_menu waits for a line the one
\* thread of the program makes no other call
NextMenu ==
    \/ menu.pc = "idle" /\ \E door \in Doors : Build(door[1], door[2], door[3])
    \/ menu.pc = "idle" /\ \E r \in Lockable, b \in BOOLEAN : SetLocked(r, b)
    \/ \E opts \in OptionLists : ShowOptions(opts)
    \/ \E r \in Rooms : ShowMoveOptions(r)
    \/ \E line \in Lines : ReadLine(line)

SpecMenu == Init /\ [][NextMenu]_vars

\* every operation of the library; while show_menu waits for a line the
\* one thread of the program makes no other call
Next ==
    \/ menu.pc = "idle" /\ \E door \in Doors : Build(door[1], door[2], door[3])
    \/ menu.pc = "idle" /\ \E a \in Rooms, d \in Dirs : Clear(a, d)
    \/ menu.pc = "idle" /\ \E a \in Rooms, d \in Dirs : Del(a, d)
    \/ menu.pc = "idle" /\ \E a \in Rooms, d \in Dirs : Get(a, d)
    \/ menu.pc = "idle" /\ \E r \in Lockable, b \in BOOLEAN : SetLocked(r, b)
    \/ menu.pc = "idle" /\ \E h \in Rooms, t \in Lockable : NumKeys < MaxKeys /\ AddKeyFor(h, t)
    \/ menu.pc = "idle" /\ \E r \in Rooms, n \in FriendNames : AddFriend(r, n)
    \/ menu.pc = "idle" /\ \E r \in Rooms : LookAround(r)
    \/ menu.pc = "idle" /\ \E r \in Rooms : SetCurrentRoom(r)
    \/ menu.pc = "idle" /\ \E a \in Rooms, s \in DirStrings : Move(a, s)
    \/ \E opts \in OptionLists : ShowOptions(opts)
    \/ \E r \in Rooms : ShowMoveOptions(r)
    \/ \E line \in Lines : ReadLine(line)

Spec == Init /\ [][Next]_vars

(* ------------------------------------------------------------------ *)
(* C1: symmetry of the room graph                                       *)
(* ------------------------------------------------------------------ *)
\* C1: after any sequence of links, for all rooms A, B and every direction
\* d, A's d-neighbour is B if and only if B's opposite neighbour is A.
Symmetric ==
    \A a \in Rooms, b \in Rooms, d \in Dirs :
        (links[a][d] = b) <=> (links[b][Opp(d)] = a)

\* the last link gave `a` the neighbour `b`, taking it from a third room
\* that had it before, while some room is linked to itself
SymmetricWitness ==
    /\ out.op = "link" /\ out.res = "ok"
    /\ before[out.arg][Opp(out.dir)] \in Rooms \ {out.room, out.arg}
    /\ \E r \in Rooms, d \in Dirs : links[r][d] = r

(* ------------------------------------------------------------------ *)
(* C2: relink overwrite                                                 *)
(* ------------------------------------------------------------------ *)
\* the last call was the link a.d = b
Linked(a, d, b) == out.op = "link" /\ out.room = a /\ out.dir = d /\ out.arg = b

\* C2 as stated: after link(A, d, B) every prior d-neighbour X of A has an
\* empty opposite slot, every prior opposite neighbour Y of B has an empty
\* d slot, A.d = B, B.opposite(d) = A, and no error was raised.
RelinkOverwriteAsStated ==
    \A a \in Rooms, b \in Rooms, d \in Dirs :
        Linked(a, d, b) =>
            /\ out.res = "ok"
            /\ links[a][d] = b /\ links[b][Opp(d)] = a
            /\ before[a][d] \in Rooms => links[before[a][d]][Opp(d)] = None
            /\ before[b][Opp(d)] \in Rooms => links[before[b][Opp(d)]][d] = None

\* C2, amended: in a graph built by links, after link(A, d, B) every prior
\* d-neighbour X of A other than B has an empty opposite slot, every prior
\* opposite neighbour Y of B other than A has an empty d slot, A.d = B,
\* B.opposite(d) = A, and no error was raised.
RelinkOverwrite ==
    \A a \in Rooms, b \in Rooms, d \in Dirs :
        Linked(a, d, b) =>
            /\ out.res = "ok"
            /\ links[a][d] = b /\ links[b][Opp(d)] = a
            /\ before[a][d] \in Rooms \ {b} => links[before[a][d]][Opp(d)] = None
            /\ before[b][Opp(d)] \in Rooms \ {a} => links[before[b][Opp(d)]][d] = None

\* a link a.d = b where a had another neighbour and b another opposite neighbour
RelinkOverwriteWitness ==
    /\ out.op = "link" /\ out.res = "ok"
    /\ before[out.room][out.dir] \in Rooms \ {out.arg}
    /\ before[out.arg][Opp(out.dir)] \in Rooms \ {out.room}


(* ------------------------------------------------------------------ *)
(* C3: clearing one side                                                *)
(* ------------------------------------------------------------------ *)
\* C3: when A.d = B and A's d slot is cleared, by `del` or by assigning
\* None, the clear raises no error, A's d slot and B's opposite slot then
\* read as empty, and the graph is still symmetric.
ClearClearsPairedSide ==
    \A a \in Rooms, b \in Rooms, d \in Dirs :
        (out.op \in {"clear", "del"} /\ out.room = a /\ out.dir = d /\ before[a][d] = b) =>
            /\ out.res = "ok"
            /\ _get(links, a, d) = None
            /\ _get(links, b, Opp(d)) = None
            /\ Symmetric

(* ------------------------------------------------------------------ *)
(* C4 - C7: moves, locks and keys                                       *)
(* ------------------------------------------------------------------ *)
\* the documented name of direction d
Named(d) ==
    CASE d = "north" -> "North"
      [] d = "south" -> "South"
      [] d = "east"  -> "East"
      [] d = "west"  -> "West"

\* the session holds the key of room r
Held(r) == r \in Range(state.keys)

\* C4: move(A, d) relocates the player to A's d-neighbour R if and only if R
\* exists and (R is not locked or the collected keys contain the room R
\* itself); with no R it is declined as 'no room', with R locked and its
\* key not held as 'locked'.
MoveOutcomeRule ==
    [][\A a \in Rooms, d \in Dirs :
        (out'.op = "move" /\ Move(a, Named(d))) =>
            LET R == links[a][d] IN
            /\ (out'.res = "Moved") <=> (R \in Rooms /\ (~locked[R] \/ Held(R)))
            /\ (out'.res = "Moved") => state'.current_room = R
            /\ (R = None) => out'.res = "NoSuchRoom"
            /\ (R \in Rooms /\ locked[R] /\ ~Held(R)) => out'.res = "Locked"]_vars

\* a move was declined as locked although every locked room whose key is
\* not held has the name of a room whose key is held
MoveOutcomeWitness ==
    /\ out.op = "move" /\ out.res = "Locked"
    /\ \A r \in Rooms : (locked[r] /\ ~Held(r)) => \E k \in Rooms : Held(k) /\ name(k) = name(r)

\* C5: a move declined for 'no room' or 'locked' changes nothing in the
\* session or in any room, and move ends in one of its three outcomes
\* (no exception).
DeclinedMoveChangesNothing ==
    [][\A a \in Rooms, d \in Dirs :
        (out'.op = "move" /\ Move(a, Named(d))) =>
            /\ out'.res \in {"Moved", "NoSuchRoom", "Locked"}
            /\ out'.res \in {"NoSuchRoom", "Locked"} =>
                   UNCHANGED <<links, locked, keys, friends, state>>]_vars

\* a move from a placed player was declined at a locked door
DeclinedMoveWitness ==
    /\ out.op = "move" /\ out.res = "Locked"
    /\ state.current_room \in Rooms
    /\ \E d \in Dirs : links[state.current_room][d] \in Rooms
                         /\ locked[links[state.current_room][d]]
                         /\ ~Held(links[state.current_room][d])

\* C6: the key of a room A gets into the collected keys only by
\* look_around on a room K that holds it, and look_around(K) puts it
\* there; a move toward locked A from a neighbour is declined as locked
\* while the key is not collected and relocates to A once it is.
KeyGatedPassage ==
    [][\A A \in Rooms :
        /\ \A K \in Rooms :
              (out'.op = "look_around" /\ A \in Range(keys[K]) /\ LookAround(K)) => Held(A)'
        /\ (~Held(A) /\ Held(A)') => \E K \in Rooms : LookAround(K) /\ A \in Range(keys[K])
        /\ \A n \in Rooms, d \in Dirs :
              (out'.op = "move" /\ links[n][d] = A /\ locked[A] /\ Move(n, Named(d))) =>
                  IF Held(A) THEN out'.res = "Moved" /\ state'.current_room = A
                             ELSE out'.res = "Locked" /\ state'.current_room = state.current_room]_vars

\* a move was declined as locked while a room still holds the key of a
\* locked neighbour
KeyGatedWitness ==
    /\ out.op = "move" /\ out.res = "Locked"
    /\ \E K \in Rooms, A \in Rooms, n \in Rooms, d \in Dirs :
          A \in Range(keys[K]) /\ locked[A] /\ ~Held(A) /\ links[n][d] = A

\* C7: no operation removes a room from the collected keys; a successful
\* move leaves the locked flags and the collected keys as they were; a
\* move toward a room whose key is held relocates to it.
HoldingKeyPermanent ==
    [][/\ \A r \in Rooms : Held(r) => Held(r)'
       /\ \A a \in Rooms, d \in Dirs :
             (out'.op = "move" /\ Move(a, Named(d))) =>
                 /\ out'.res = "Moved" => (locked' = locked /\ state'.keys = state.keys)
                 /\ (links[a][d] \in Rooms /\ Held(links[a][d])) =>
                        (out'.res = "Moved" /\ state'.current_room = links[a][d])]_vars

\* the player moved into a locked room with its key, and the room is still
\* locked and the key still held
HoldingKeyWitness ==
    /\ out.op = "move" /\ out.res = "Moved"
    /\ locked[state.current_room] /\ Held(state.current_room)

(* ------------------------------------------------------------------ *)
(* C8 - C10: friends                                                    *)
(* ------------------------------------------------------------------ *)
\* how often x occurs in the list q
Count(q, x) == Cardinality({i \in 1..Len(q) : q[i] = x})

Remaining(n) == n \in Range(state.remaining_friends)
Found(n) == n \in Range(state.found_friends)

\* C8 as stated: every registered friend name is in exactly one of
\* remaining_friends and found_friends, also when the same name was
\* registered in two rooms.
FriendAccountingAsStated ==
    \A n \in FriendNames :
        calls.registered[n] > 0 => (Remaining(n) /\ ~Found(n)) \/ (Found(n) /\ ~Remaining(n))

\* C8, amended: every registered friend name is in remaining_friends or
\* in found_friends, never in neither; its entries in the two lists
\* together number its registrations; so a name registered once is in
\* exactly one of the lists, never in both.
FriendAccounting ==
    \A n \in FriendNames :
        /\ Count(state.remaining_friends, n) + Count(state.found_friends, n) = calls.registered[n]
        /\ calls.registered[n] > 0 => Remaining(n) \/ Found(n)
        /\ calls.registered[n] = 1 => ~(Remaining(n) /\ Found(n))

\* a name registered once has been found while a name registered twice
\* is found once and still remaining once
FriendAccountingWitness ==
    \E n \in FriendNames, m \in FriendNames :
        /\ calls.registered[n] = 1 /\ Found(n) /\ ~Remaining(n)
        /\ calls.registered[m] = 2 /\ Found(m) /\ Remaining(m)

\* C9 as stated: remaining_friends() is the number of registered friends
\* minus the number of look_around calls that newly discovered a friend.
RemainingCountAsStated ==
    remaining_friends = calls.add_friend - calls.finding

\* C9, amended: remaining_friends() is the number of add_friend calls
\* minus the number of friends that look_around calls discovered (a call
\* that finds several friends counts once for each).
RemainingCount ==
    remaining_friends = calls.add_friend - calls.found

\* one look_around call found two friends, another friend remains
RemainingCountWitness ==
    calls.finding = 1 /\ calls.found = 2 /\ remaining_friends = 1

\* C10: look_around(room) appends every key entry of the room to the
\* collected keys and empties room.keys; it appends every name of
\* room.friends to found_friends, takes one entry for each out of
\* remaining_friends, and empties room.friends.
LookAroundCollects ==
    [][\A r \in Rooms :
        (out'.op = "look_around" /\ LookAround(r)) =>
            /\ out'.res = "ok"
            /\ state'.keys = state.keys \o keys[r]
            /\ keys'[r] = <<>>
            /\ state'.found_friends = state.found_friends \o friends[r]
            /\ \A n \in FriendNames :
                  Count(state'.remaining_friends, n) =
                      Count(state.remaining_friends, n) - Count(friends[r], n)
            /\ friends'[r] = <<>>]_vars

\* the last look_around was the one call that found friends, two of
\* them, and a key has been collected and none is left in a room
LookAroundCollectsWitness ==
    /\ out.op = "look_around" /\ out.res = "ok"
    /\ calls.finding = 1 /\ calls.found = 2
    /\ state.keys # <<>> /\ \A r \in Rooms : keys[r] = <<>>

(* ------------------------------------------------------------------ *)
(* C11: one-time pickup                                                 *)
(* ------------------------------------------------------------------ *)
\* C11: look_around on a room leaves nothing in it to find, and
\* look_around on a room with nothing to find (the same room again, no
\* add_key_for or add_friend on it in between) leaves the collected keys,
\* found_friends and remaining_friends exactly as they were.
PickupOnce ==
    [][\A r \in Rooms :
        (out'.op = "look_around" /\ LookAround(r)) =>
            /\ keys'[r] = <<>> /\ friends'[r] = <<>>
            /\ (keys[r] = <<>> /\ friends[r] = <<>>) =>
                   /\ state'.keys = state.keys
                   /\ state'.found_friends = state.found_friends
                   /\ state'.remaining_friends = state.remaining_friends]_vars

\* look_around calls, at least two of them finding friends, have emptied
\* every room: the key and the three friends placed are collected, and a
\* further look_around on any room finds nothing
PickupOnceWitness ==
    /\ out.op = "look_around" /\ out.res = "ok"
    /\ \A r \in Rooms : keys[r] = <<>> /\ friends[r] = <<>>
    /\ Len(state.keys) = 1 /\ Len(state.found_friends) = 3
    /\ calls.finding >= 2

(* ------------------------------------------------------------------ *)
(* C12: add_key_for                                                     *)
(* ------------------------------------------------------------------ *)
\* C12: add_key_for(holder, target) appends one entry for target to
\* holder.keys, whether or not the holder has one already, and sets
\* target.locked; it changes nothing else.  look_around(holder) then adds
\* to the collected keys as many entries for target as holder.keys had.
AddKeyForAppends ==
    [][/\ \A h \in Rooms, t \in Rooms :
             (out'.op = "add_key_for" /\ AddKeyFor(h, t)) =>
                 /\ keys' = [keys EXCEPT ![h] = keys[h] \o <<t>>]
                 /\ Count(keys'[h], t) = Count(keys[h], t) + 1
                 /\ locked' = [locked EXCEPT ![t] = TRUE]
                 /\ UNCHANGED <<links, friends, state>>
       /\ \A h \in Rooms, t \in Rooms :
             (out'.op = "look_around" /\ LookAround(h)) =>
                 Count(state'.keys, t) = Count(state.keys, t) + Count(keys[h], t)]_vars

\* the second add_key_for for one holder and target has left two entries
\* for the target in the holder's keys
AddKeyForWitness ==
    /\ out.op = "add_key_for"
    /\ \E h \in Rooms, t \in Rooms : keys[h] = <<t, t>> /\ locked[t]

(* ------------------------------------------------------------------ *)
(* C13 - C15, C17: menus                                                *)
(* ------------------------------------------------------------------ *)
\* the line denotes the number k
IsNumber(line, k) == int(line).ok /\ int(line).num = k

\* the positions of the options whose text equals the line ignoring case
ByText(options, line) ==
    {i \in 1..Len(options) : str_lower(Chars(options[i])) = str_lower(line)}

\* the positions k of the options for which the line is the number k
ByIndex(options, line) == {k \in 1..Len(options) : IsNumber(line, k)}

\* this step ends the show_menu call returning option c
Returns(c) == menu'.pc = "idle" /\ out'.arg = c /\ out'.op \in {"show_menu", "show_move_options"}

\* this step leaves show_menu waiting for another line, the game as it was
PromptsAgain ==
    /\ menu'.pc = "reading" /\ menu'.options = menu.options /\ menu'.room = menu.room
    /\ out'.op = "show_menu" /\ out'.res = "invalid"
    /\ UNCHANGED <<links, locked, keys, friends, state>>

\* C13 as stated: a line read by show_menu that is the number k of an
\* option returns options[k-1]; a line that equals an option's text
\* ignoring case returns that option; any other line changes no game
\* state and leaves show_menu reading; nothing else ends the call.
MenuChoiceAsStated ==
    [][menu.pc = "reading" =>
        /\ \E line \in Lines : ReadLine(line)
        /\ \A line \in Lines : ReadLine(line) =>
              LET options == menu.options IN
              /\ menu'.pc = "idle" => out'.arg \in Range(options)
              /\ \A k \in ByIndex(options, line) : Returns(options[k])
              /\ (ByIndex(options, line) = {} /\ ByText(options, line) # {}) =>
                     \E i \in ByText(options, line) : Returns(options[i])
              /\ (ByIndex(options, line) = {} /\ ByText(options, line) = {}) =>
                     PromptsAgain]_vars

\* C13, amended: a line read by show_menu that is the number k of an
\* option returns options[k-1]; a line that is no number and equals an
\* option's text ignoring case returns the first such option; any other
\* line, a number outside 1..len(options) also when an option has that
\* text, changes no game state and leaves show_menu reading; nothing else
\* ends the call, and what is returned is a member of options.
MenuChoice ==
    [][menu.pc = "reading" =>
        /\ \E line \in Lines : ReadLine(line)
        /\ \A line \in Lines : ReadLine(line) =>
              LET options == menu.options
                  texts == IF int(line).ok THEN {} ELSE ByText(options, line)
              IN
              /\ menu'.pc = "idle" => out'.arg \in Range(options)
              /\ \A k \in ByIndex(options, line) : Returns(options[k])
              /\ texts # {} => \E i \in texts : (\A j \in texts : i <= j) /\ Returns(options[i])
              /\ (ByIndex(options, line) = {} /\ texts = {}) => PromptsAgain]_vars

\* show_menu has rejected a line that is the text of one of its options,
\* a number beyond the length of the list, and waits for the next line
MenuChoiceWitness ==
    /\ menu.pc = "reading" /\ out.op = "show_menu" /\ out.res = "invalid"
    /\ \E i \in 1..Len(menu.options) :
          menu.line = Chars(menu.options[i]) /\ int(menu.line).num > Len(menu.options)

\* the place of a direction name in the order North, South, East, West
Rank(n) == CASE n = "North" -> 1 [] n = "South" -> 2 [] n = "East" -> 3 [] n = "West" -> 4

\* C14: show_move_options(room) offers exactly the directions whose slot
\* on room is non-empty, in the order North, South, East, West, and calls
\* move on room with the option chosen: the move is never declined for
\* 'no room', it relocates to the chosen neighbour or is refused at a
\* locked door.
MoveMenuOffersOpenDirections ==
    [][/\ \A r \in Rooms :
             (out'.op = "show_move_options" /\ ShowMoveOptions(r)) =>
                 LET options == menu'.options IN
                 /\ menu'.pc = "reading" /\ menu'.room = r
                 /\ \A d \in Dirs : (\E i \in 1..Len(options) : options[i] = Named(d))
                                        <=> links[r][d] # None
                 /\ \A i \in 1..Len(options), j \in 1..Len(options) :
                        i < j => Rank(options[i]) < Rank(options[j])
       /\ \A line \in Lines :
             (menu.pc = "reading" /\ menu.room # None /\ menu'.pc = "idle" /\ ReadLine(line)) =>
                 LET R == links[menu.room][lower(out'.arg)] IN
                 /\ out'.arg \in Range(menu.options)
                 /\ R \in Rooms
                 /\ out'.res \in {"Moved", "Locked"}
                 /\ out'.res = "Moved" => state'.current_room = R /\ (~locked[R] \/ Held(R))
                 /\ out'.res = "Locked" => state' = state /\ locked[R]]_vars

\* the move made by show_move_options from a room with two open
\* directions was refused at a locked door
MoveMenuWitness ==
    /\ out.op = "show_move_options" /\ out.res = "Locked" /\ menu.pc = "idle"
    /\ \E r \in Rooms : /\ Len(MoveOptions(r)) = 2
                        /\ links[r][lower(out.arg)] \in Rooms
                        /\ locked[links[r][lower(out.arg)]]

\* the line is a choice show_menu accepts: the number of an option, or no
\* number and the text of an option ignoring case
ValidChoice(options, line) ==
    \/ ByIndex(options, line) # {}
    \/ ~int(line).ok /\ ByText(options, line) # {}

Numeral(k) == <<CASE k = 1 -> "1" [] k = 2 -> "2" [] k = 3 -> "3" [] k = 4 -> "4">>

\* the two texts are equal except for the case of their letters
EqualsIgnoringCase(a, b) ==
    Len(a) = Len(b) /\ \A i \in 1..Len(a) : LowerChar(a[i]) = LowerChar(b[i])

Placed(R) == \E h \in Rooms : R \in Range(keys[h])

\* C16: set_locked(R, b) changes R.locked and nothing else; a move toward
\* a room that is not locked succeeds, also when add_key_for locked it
\* before and its key is not collected; while a room is locked and no key
\* for it is placed or held, look_around places or collects none and no
\* move enters it.
SetLockedOverrides ==
    [][/\ \A R \in Rooms, b \in BOOLEAN :
             (out'.op = "set_locked" /\ SetLocked(R, b)) =>
                 /\ locked' = [locked EXCEPT ![R] = b]
                 /\ UNCHANGED <<links, keys, friends, state>>
       /\ \A a \in Rooms, d \in Dirs :
             (out'.op = "move" /\ Move(a, Named(d))) =>
                 LET R == links[a][d] IN
                 /\ (R \in Rooms /\ ~locked[R]) =>
                        out'.res = "Moved" /\ state'.current_room = R
                 /\ (R \in Rooms /\ locked[R] /\ ~Placed(R) /\ ~Held(R)) =>
                        out'.res = "Locked" /\ state'.current_room = state.current_room
       /\ \A R \in Rooms :
             (out'.op \in {"move", "look_around"} /\ locked[R] /\ ~Placed(R) /\ ~Held(R)) =>
                 /\ ~Placed(R)' /\ ~Held(R)'
                 /\ state'.current_room = R => state.current_room = R]_vars

\* the player has moved into a room that add_key_for locked and
\* set_locked unlocked, its key still lying uncollected in a room
SetLockedWitness ==
    /\ out.op = "move" /\ out.res = "Moved"
    /\ ~locked[state.current_room] /\ Placed(state.current_room) /\ ~Held(state.current_room)

(* ------------------------------------------------------------------ *)
(* C18: the direction name of move                                      *)
(* ------------------------------------------------------------------ *)
\* the string s spells the direction d in some mix of upper and lower case
CaseVariant(s, d) == EqualsIgnoringCase(Chars(s), Chars(d))

\* C18: for every room and every string s, move(room, s) ends as
\* move(room, lower(s)) does and leaves the same state; when s spells a
\* direction in any case it ends as the move under the documented name
\* does; when s spells none of north, south, east, west it is declined
\* as 'no room' and changes nothing.
MoveIgnoresCase ==
    [][\A a \in Rooms, s \in DirStrings :
        (out'.op = "move" /\ Move(a, s)) =>
            /\ Move(a, lower(s))
            /\ \A d \in Dirs : CaseVariant(s, d) => Move(a, Named(d)) /\ Move(a, d)
            /\ (\A d \in Dirs : ~CaseVariant(s, d)) =>
                   /\ out'.res = "NoSuchRoom"
                   /\ UNCHANGED <<links, locked, keys, friends, state>>]_vars

\* the player has moved, from a room where the spelling "NORTH" leads
\* into the room it is in now, and from some room the spelling "sOuTh"
\* is refused at a locked door
MoveIgnoresCaseWitness ==
    /\ out.op = "move" /\ out.res = "Moved"
    /\ \E a \in Rooms : MoveResult(a, "NORTH") = "Moved"
                          /\ Resolve(a, "NORTH") = state.current_room
    /\ \E a \in Rooms : MoveResult(a, "sOuTh") = "Locked"

(* ------------------------------------------------------------------ *)
(* C19: friend conservation                                             *)
(* ------------------------------------------------------------------ *)
\* how often the name n occurs in the friends lists of the rooms rs
RECURSIVE InRooms(_, _)
InRooms(rs, n) ==
    IF rs = {} THEN 0
    ELSE LET r == CHOOSE x \in rs : TRUE IN Count(friends[r], n) + InRooms(rs \ {r}, n)

\* C19: every name occurs in remaining_friends as often as in the friends
\* lists of all rooms together; remaining_friends and found_friends
\* together have as many entries as add_friend was called; and no
\* look_around has failed removing a friend from remaining_friends.
FriendConservation ==
    /\ \A n \in FriendNames : Count(state.remaining_friends, n) = InRooms(Rooms, n)
    /\ Len(state.remaining_friends) + Len(state.found_friends) = calls.add_friend
    /\ out.op = "look_around" => out.res = "ok"

\* look_around has found a friend whose name also waits in another room,
\* with a friend of another name
FriendConservationWitness ==
    /\ out.op = "look_around"
    /\ \E n \in FriendNames, m \in FriendNames, r \in Rooms :
          /\ n # m
          /\ Found(n) /\ Remaining(n) /\ friends[r] = <<n, m>>

(* ------------------------------------------------------------------ *)
(* C20: no dead end after a move                                        *)
(* ------------------------------------------------------------------ *)
\* the player stands in a room none of whose directions is open
DeadEnd == state.current_room \in Rooms /\ MoveOptions(state.current_room) = <<>>

\* C20: after a successful move(A, d) into R the opposite-of-d neighbour
\* of R is A, so the menu show_move_options builds for the new current
\* room is not empty and offers the way back; the player comes to stand
\* in a room with an empty menu only by set_current_room or by a later
\* assignment to a direction (a relink or a clear).
NoDeadEndAfterMove ==
    [][/\ \A a \in Rooms, d \in Dirs :
             (out'.op = "move" /\ out'.res = "Moved" /\ Move(a, Named(d))) =>
                 LET R == state'.current_room IN
                 /\ links'[R][Opp(d)] = a
                 /\ \E i \in 1..Len(MoveOptions(R)) : MoveOptions(R)[i] = Named(Opp(d))
                 /\ ~DeadEnd'
       /\ (~DeadEnd /\ DeadEnd') => out'.op \in {"set_current_room", "build", "clear"}
       /\ (DeadEnd /\ DeadEnd' /\ state'.current_room # state.current_room) =>
              out'.op = "set_current_room"]_vars

(* ------------------------------------------------------------------ *)
(* C21: frame of look_around and move                                   *)
(* ------------------------------------------------------------------ *)
\* the fields of room a itself
OwnFields(a) == <<links[a], locked[a], keys[a], friends[a]>>

\* how a.move(s) would end in this state, and in which room
MoveEffect(a, s) == <<MoveResult(a, s), Resolve(a, s)>>

\* what r.look_around() would collect in this state
LookEffect(r) ==
    IF \E d \in Dirs : links[r][d] = Deleted THEN <<"AttributeError">>
    ELSE <<collect(<<>>, keys[r]), FindFriends(friends[r], <<>>, friends[r]).found>>

\* look_around(r) leaves current_room, all links and locked flags, and the
\* keys and friends of every other room; a successful move changes
\* nothing but current_room
FrameOfStep ==
    /\ \A r \in Rooms :
          (out'.op = "look_around" /\ LookAround(r)) =>
              /\ state'.current_room = state.current_room
              /\ links' = links /\ locked' = locked
              /\ \A q \in Rooms \ {r} : keys'[q] = keys[q] /\ friends'[q] = friends[q]
    /\ \A a \in Rooms, d \in Dirs :
          (out'.op = "move" /\ out'.res = "Moved" /\ Move(a, Named(d))) =>
              /\ state' = [state EXCEPT !.current_room = links[a][d]]
              /\ UNCHANGED <<links, locked, keys, friends>>

\* C21 as stated: the frame of look_around and of a successful move, and
\* what look_around and move on a room would do is the same in two
\* successive states that agree on the room's own fields and on the
\* collected keys, wherever the player is.
FrameAsStated ==
    [][/\ FrameOfStep
       /\ \A a \in Rooms :
             (OwnFields(a)' = OwnFields(a) /\ state'.keys = state.keys) =>
                 /\ LookEffect(a)' = LookEffect(a)
                 /\ \A s \in DirNames : MoveEffect(a, s)' = MoveEffect(a, s)]_vars

\* C21, amended: the frame of look_around and of a successful move, and
\* what look_around and move on a room would do is the same in two
\* successive states that agree on the room's own fields, on the locked
\* flags of its neighbours and on the collected keys, wherever the player
\* is: move asks the room it resolves, not the room it is called on,
\* whether it is locked.
FrameAndDependence ==
    [][/\ FrameOfStep
       /\ \A a \in Rooms :
             (/\ OwnFields(a)' = OwnFields(a) /\ state'.keys = state.keys
              /\ \A d \in Dirs : links[a][d] \in Rooms => locked'[links[a][d]] = locked[links[a][d]])
             => /\ LookEffect(a)' = LookEffect(a)
                /\ \A s \in DirNames : MoveEffect(a, s)' = MoveEffect(a, s)]_vars

\* the player has moved with a collected key into a locked room, while
\* a friend still waits in another room and none was found
FrameWitness ==
    /\ out.op = "move" /\ out.res = "Moved"
    /\ locked[state.current_room] /\ Held(state.current_room)
    /\ \E q \in Rooms : q # state.current_room /\ friends[q] # <<>>
    /\ state.found_friends = <<>>

====
